---- MODULE Spec2Model ----
(***************************************************************************)
(* Model of the command argument matcher of part-time-raver                *)
(* (ModuleService.ts): leaf type matchers, Argument.parse, Syntax.parse,   *)
(* ArgumentGroup.check, CommandVersion.check and Command.check.            *)
(*                                                                         *)
(* A JavaScript string is a sequence of one-character strings, so that     *)
(* split, join, slice, startsWith and the regular expressions are computed *)
(* and not assumed.  A JavaScript object whose property may be undefined   *)
(* is a record that carries the key only when the property is set.         *)
(* Cursors (argi, parti, success_at) keep the 0-based values of the code.  *)
(***************************************************************************)
EXTENDS Integers, Sequences, FiniteSets, TLC

\* ------------------------------------------------------------------------
\* Bounds of the explored inputs
\* ------------------------------------------------------------------------
MaxLeaves == 4
MaxTokens == 4
MaxTrail == 8
MaxSteps == 40

\* ------------------------------------------------------------------------
\* Strings
\* ------------------------------------------------------------------------
S_a == <<"a">>
S_b == <<"b">>
S_c == <<"c">>
S_or == <<"o", "r">>
S_n == <<"n">>
S_option == <<"o", "p", "t", "i", "o", "n">>
S_5 == <<"5">>
S_12 == <<"1", "2">>
S_0 == <<"0">>
S_wyr == <<"w", "y", "r">>
S_num == <<"n", "u", "m">>

Digits == {"0", "1", "2", "3", "4", "5", "6", "7", "8", "9"}

LineTerminators == {"\n", "\r"}

DigitValue(ch) ==
    CASE ch = "0" -> 0 [] ch = "1" -> 1 [] ch = "2" -> 2 [] ch = "3" -> 3
      [] ch = "4" -> 4 [] ch = "5" -> 5 [] ch = "6" -> 6 [] ch = "7" -> 7
      [] ch = "8" -> 8 [] ch = "9" -> 9

\* parseInt on a string the digit pattern accepted
RECURSIVE parseInt(_)
parseInt(s) ==
    IF s = <<>> THEN 0
    ELSE parseInt(SubSeq(s, 1, Len(s) - 1)) * 10 + DigitValue(s[Len(s)])

\* Array.prototype.slice(from, to) on 0-based indices, to exclusive
slice(s, from, to) ==
    LET lo == IF from < 0 THEN 0 ELSE from
        hi == IF to > Len(s) THEN Len(s) ELSE to
    IN  IF hi <= lo THEN <<>> ELSE SubSeq(s, lo + 1, hi)

\* Array.prototype.join(" ")
RECURSIVE join(_)
join(ps) ==
    IF ps = <<>> THEN <<>>
    ELSE IF Len(ps) = 1 THEN ps[1]
    ELSE ps[1] \o <<" ">> \o join(Tail(ps))

\* .filter(_ => !!_): the empty string is the only falsy string
filterTruthy(ps) == SelectSeq(ps, LAMBDA p : p # <<>>)

\* String.prototype.split(" ")
RECURSIVE splitFrom(_, _)
splitFrom(s, cur) ==
    IF s = <<>> THEN <<cur>>
    ELSE IF Head(s) = " " THEN <<cur>> \o splitFrom(Tail(s), <<>>)
    ELSE splitFrom(Tail(s), Append(cur, Head(s)))

split(s) == splitFrom(s, <<>>)

startsWith(s, p) == Len(p) <= Len(s) /\ SubSeq(s, 1, Len(p)) = p

\* ------------------------------------------------------------------------
\* Results: a call returns a value, returns null, or throws
\* ------------------------------------------------------------------------
Null == [kind |-> "null"]
Value(v) == [kind |-> "value", value |-> v]
Throw(e) == [kind |-> "throw", error |-> e]

\* new ArgError(message): type, arg and version are unset
ArgError(message) == [class |-> "ArgError", message |-> message]

TypeError(message) == [class |-> "TypeError", message |-> message]

IsArgError(e) == e.class = "ArgError"

\* e.arg = this / e.version = this
SetField(e, k, v) == (k :> v) @@ e

\* ------------------------------------------------------------------------
\* Leaf type matchers
\* ------------------------------------------------------------------------
IntegerArgType(min, max) == [name |-> "Integer", min |-> min, max |-> max]
TextArgType(maxLength) == [name |-> "Text", maxLength |-> maxLength]

\* /^\d+$/
IntegerRegExp(part) == part # <<>> /\ \A k \in 1..Len(part) : part[k] \in Digits

\* /^.+$/ (no m flag: "." is any character but a line terminator)
TextRegExp(part) == part # <<>> /\ \A k \in 1..Len(part) : part[k] \notin LineTerminators

\* the JavaScript values a matcher returns
NumValue(n) == [js |-> "number", num |-> n, str |-> <<>>]
StrValue(s) == [js |-> "string", num |-> 0, str |-> s]
TrueValue == [js |-> "boolean", num |-> 1, str |-> <<>>]

Truthy(v) ==
    CASE v.js = "number" -> v.num # 0
      [] v.js = "string" -> v.str # <<>>
      [] OTHER -> v.num # 0

IntegerArgTypeParse(type, part) ==
    IF ~IntegerRegExp(part) THEN Throw(ArgError("Expected a valid integer"))
    ELSE LET num == parseInt(part)
         IN  IF num < type.min THEN Throw(ArgError("Expected integer to be above"))
             ELSE IF num > type.max THEN Throw(ArgError("Expected integer to be below"))
             ELSE Value(NumValue(num))

TextArgTypeParse(type, part) ==
    IF ~TextRegExp(part) THEN Throw(ArgError("Expected text"))
    ELSE IF type.maxLength # 0 /\ Len(part) > type.maxLength
         THEN Throw(ArgError("Expected text to be less than"))
    ELSE Value(StrValue(part))

TypeParse(type, part) ==
    CASE type.name = "Integer" -> IntegerArgTypeParse(type, part)
      [] type.name = "Text" -> TextArgTypeParse(type, part)
      [] OTHER -> Throw(ArgError("Invalid argument type."))

\* ------------------------------------------------------------------------
\* Leaves
\* ------------------------------------------------------------------------
\* new Argument({name, types, optional, priority}); priority: info.priority || 0
Argument(name, types, optional, priority) ==
    [isGroup |-> FALSE, class |-> "Argument", name |-> name, types |-> types,
     literal |-> FALSE, optional |-> optional, priority |-> priority]

\* new Syntax(name, optional, priority)
Syntax(name, optional, priority) ==
    [isGroup |-> FALSE, class |-> "Syntax", name |-> name, types |-> <<>>,
     literal |-> TRUE, optional |-> optional, priority |-> priority]

ParsedArg(value, type) == [value |-> value, type |-> type]

NullType == [name |-> "null"]

RECURSIVE ArgumentParseFrom(_, _, _)

\* lines 615-629: the outcome of type.parse for the type at i
ArgumentParsed(arg, part, i, parsed) ==
    IF parsed.kind = "throw"
    THEN Throw(IF IsArgError(parsed.error)
               THEN SetField(parsed.error, "arg", arg)
               ELSE parsed.error)
    ELSE IF Truthy(parsed.value)
    THEN Value(ParsedArg(parsed.value, arg.types[i]))
    ELSE ArgumentParseFrom(arg, part, i + 1)

ArgumentParseFrom(arg, part, i) ==
    IF i > Len(arg.types) THEN Null
    ELSE ArgumentParsed(arg, part, i, TypeParse(arg.types[i], part))

ArgumentParse(arg, part) == ArgumentParseFrom(arg, part, 1)

SyntaxParse(arg, part) ==
    IF part = arg.name THEN Value(ParsedArg(TrueValue, NullType)) ELSE Null

\* single.parse(part, message): dispatch on the class of the leaf
Parse(arg, part) ==
    IF arg.class = "Syntax" THEN SyntaxParse(arg, part) ELSE ArgumentParse(arg, part)

\* ------------------------------------------------------------------------
\* Groups
\* ------------------------------------------------------------------------
\* new ArgumentGroup(args, options); options carries only the keys that are set
ArgumentGroup(args, options) == [isGroup |-> TRUE, args |-> args, options |-> options]

NoOptions == [flexible |-> FALSE]

\* truthiness of options.repeat / options.optional / options.partial
OptionOn(options, k) == k \in DOMAIN options /\ options[k] = TRUE

\* arg.isGroup ? arg.options : arg
OptionsOf(node) == IF node.isGroup THEN node.options ELSE node

\* options.priority <= lookahead_options.priority (false when either is undefined)
PriorityAllows(arg, lookahead) ==
    LET options == OptionsOf(arg)
        lookahead_options == OptionsOf(lookahead)
    IN  /\ "priority" \in DOMAIN options
        /\ "priority" \in DOMAIN lookahead_options
        /\ options.priority <= lookahead_options.priority

Put(pa, name, v) == [n \in (DOMAIN pa) \cup {name} |-> IF n = name THEN v ELSE pa[n]]

\* parsed_args[name].push(v)
Push(pa, name, v) == [pa EXCEPT ![name] = Append(@, v)]

\* mutant: the widened value is pushed and the old one kept
ReplaceLast_Pushes(pa, name, v) == [pa EXCEPT ![name] = Append(@, v)]

\* parsed_args[name][parsed_args[name].length - 1] = v
ReplaceLast(pa, name, v) ==
    IF pa[name] = <<>> THEN pa
    ELSE [pa EXCEPT ![name] = [@ EXCEPT ![Len(@)] = v]]

\* lines 372-387: one entry per leaf directly in the group
RECURSIVE SeedFrom(_, _, _)
SeedFrom(g, i, pa) ==
    IF i > Len(g.args) THEN pa
    ELSE LET arg == g.args[i]
         IN  IF arg.isGroup THEN SeedFrom(g, i + 1, pa)
             ELSE IF "default" \in DOMAIN arg
                  THEN IF arg.name \in DOMAIN pa
                       THEN SeedFrom(g, i + 1, Push(pa, arg.name, arg.default))
                       ELSE SeedFrom(g, i + 1, Put(pa, arg.name, <<arg.default>>))
             ELSE SeedFrom(g, i + 1, Put(pa, arg.name, <<>>))

Seed(g) == SeedFrom(g, 1, <<>>)

\* repeatMin || 1
MinRepeats(options) ==
    IF "repeatMin" \in DOMAIN options /\ options.repeatMin # 0 THEN options.repeatMin ELSE 1

RECURSIVE Copies(_, _)
Copies(x, n) == IF n <= 0 THEN <<>> ELSE <<x>> \o Copies(x, n - 1)

\* lines 391-402: the slot list, as indices into this.args (a slot of a
\* group is the group object itself, so the index is its identity)
RECURSIVE ExpandFrom(_, _)
ExpandFrom(g, i) ==
    IF i > Len(g.args) THEN <<>>
    ELSE LET arg == g.args[i]
         IN  (IF arg.isGroup THEN Copies(i, MinRepeats(arg.options)) ELSE <<i>>)
             \o ExpandFrom(g, i + 1)

\* lines 404-406: a repeatable group scans its slot list twice
ExpandArgs(g) ==
    LET args == ExpandFrom(g, 1)
    IN  IF OptionOn(g.options, "repeat") THEN args \o args ELSE args

\* ------------------------------------------------------------------------
\* ArgumentGroup.check
\* ------------------------------------------------------------------------
Diverge == [kind |-> "diverge"]
Continue(st) == [kind |-> "next", st |-> st]

\* curRepeats.get(group) || 1
CurRepeat(curRepeats, key) ==
    IF key \in DOMAIN curRepeats /\ curRepeats[key] # 0 THEN curRepeats[key] ELSE 1

\* curRepeat >= repeatMax (false when repeatMax is undefined)
ReachedMax(options, curRepeat) ==
    "repeatMax" \in DOMAIN options /\ curRepeat >= options.repeatMax

\* curRepeat <= repeatMin (false when repeatMin is undefined)
WithinMin(options, curRepeat) ==
    "repeatMin" \in DOMAIN options /\ curRepeat <= options.repeatMin

\* argi >= args.length / 2
SecondPass(argi, args) == 2 * argi >= Len(args)

\* mutant: the count of the early return is one token further
EarlyCount_OneMore(parti) == parti - 1

\* return [ parsed_args, parti - 2 ]
EarlyCount(parti) == parti - 2

\* lines 563-571: not enough arguments supplied
NotEnough(g, args, argi) ==
    IF OptionOn(g.options, "repeat")
    THEN 2 * argi < Len(args) - 2
    ELSE argi < Len(args) - 1

\* group.options.optional || this.options.partial, single.optional || this.options.partial
CanSkip(g, node) ==
    \/ (IF node.isGroup THEN OptionOn(node.options, "optional") ELSE node.optional)
    \/ OptionOn(g.options, "partial")

\* lines 437-441: parsed_args[parg[0]].push(...parg[1]) for every entry
LookaheadMerge(pa, parsed) ==
    IF DOMAIN parsed \subseteq DOMAIN pa
    THEN Value([n \in DOMAIN pa |-> IF n \in DOMAIN parsed THEN pa[n] \o parsed[n] ELSE pa[n]])
    ELSE Throw(TypeError("Cannot read property 'push' of undefined"))

\* lines 498-508
DirectMerge(pa, parsed) ==
    [n \in (DOMAIN pa) \cup (DOMAIN parsed) |->
        IF n \notin DOMAIN parsed THEN pa[n]
        ELSE IF n \notin DOMAIN pa THEN parsed[n]
        ELSE pa[n] \o parsed[n]]

\* lines 481-487: the widened span parsed, or the accumulation is closed
Extended(st, single, parsed) ==
    CASE parsed.kind = "throw" -> parsed
      [] parsed.kind = "value" ->
            Continue([st EXCEPT !.parsed_args = ReplaceLast(@, single.name, parsed.value)])
      [] OTHER ->
            Continue([st EXCEPT !.argi = @ + 1, !.parti = @ - 1, !.success_at = -1])

\* lines 478-479: widen the span of the active leaf by the current token
Extend(g, args, parts, st) ==
    Extended(st, g.args[args[st.argi + 1]],
             Parse(g.args[args[st.argi + 1]],
                   join(slice(parts, st.success_at, st.parti + 1))))

\* lines 443-451: the repeat count of a group matched by lookahead
LookaheadRepeat(st, key, options) ==
    IF ReachedMax(options, CurRepeat(st.curRepeats, key))
    THEN [st EXCEPT !.curRepeats = Put(@, key, CurRepeat(st.curRepeats, key) + 1),
                    !.argi = @ + 1]
    ELSE [st EXCEPT !.curRepeats = Put(@, key, CurRepeat(st.curRepeats, key) + 1)]

\* lines 510-523: the slot cursor after a group matched directly
DirectRepeat(st, key, options) ==
    IF OptionOn(options, "repeat")
    THEN IF ReachedMax(options, CurRepeat(st.curRepeats, key))
            \/ WithinMin(options, CurRepeat(st.curRepeats, key))
         THEN [st EXCEPT !.curRepeats = Put(@, key, CurRepeat(st.curRepeats, key) + 1),
                         !.argi = @ + 1]
         ELSE [st EXCEPT !.curRepeats = Put(@, key, CurRepeat(st.curRepeats, key) + 1)]
    ELSE [st EXCEPT !.argi = @ + 1]

\* mutant: the skip leaves the slot cursor where it is
Skip_KeepsSlot(g, node, st) ==
    IF CanSkip(g, node)
    THEN Continue([st EXCEPT !.parti = @ - 1])
    ELSE Null

\* lines 524-543: a group that did not match, or raised an ArgError
Skip(g, node, st) ==
    IF CanSkip(g, node)
    THEN Continue([st EXCEPT !.argi = @ + 1, !.parti = @ - 1])
    ELSE Null

\* lines 429-452: the lookahead group matched
LookaheadMatched(st, key, lookahead, parsedTuple, merged) ==
    IF merged.kind = "throw" THEN merged
    ELSE IF OptionOn(lookahead.options, "repeat")
    THEN Continue(LookaheadRepeat(
            [st EXCEPT !.argi = @ + 1, !.success_at = -1,
                       !.parti = @ + parsedTuple.value[2],
                       !.parsed_args = merged.value],
            key, lookahead.options))
    ELSE Continue([st EXCEPT !.argi = @ + 2, !.success_at = -1,
                             !.parti = @ + parsedTuple.value[2],
                             !.parsed_args = merged.value])

\* lines 426-459: the outcome of lookahead.check; "retry" stands for going on
\* to line 478
LookaheadGroupResult(st, key, lookahead, parsedTuple) ==
    CASE parsedTuple.kind = "value" ->
            LookaheadMatched(st, key, lookahead, parsedTuple,
                             LookaheadMerge(st.parsed_args, parsedTuple.value[1]))
      [] parsedTuple.kind = "throw" /\ ~IsArgError(parsedTuple.error) -> parsedTuple
      [] parsedTuple.kind = "diverge" -> parsedTuple
      [] OTHER -> [kind |-> "retry"]

\* lines 462-473: the outcome of the lookahead leaf's parse
LookaheadSingleResult(args, st, single, parsed) ==
    CASE parsed.kind = "throw" -> parsed
      [] parsed.kind = "value" ->
            IF SecondPass(st.argi, args)
            THEN Value(<<st.parsed_args, EarlyCount(st.parti)>>)
            ELSE Continue([st EXCEPT !.argi = @ + 1,
                                     !.parsed_args = Push(@, single.name, parsed.value),
                                     !.success_at = st.parti])
      [] OTHER -> [kind |-> "retry"]

RECURSIVE check(_, _)

\* lines 418-476: the attempt of the next slot on the current token
Lookahead(g, args, parts, st) ==
    IF st.argi + 1 < Len(args)
       /\ PriorityAllows(g.args[args[st.argi + 1]], g.args[args[st.argi + 2]])
    THEN IF g.args[args[st.argi + 2]].isGroup
         THEN LookaheadGroupResult(st, args[st.argi + 2], g.args[args[st.argi + 2]],
                  check(g.args[args[st.argi + 2]],
                        filterTruthy(slice(parts, st.parti, Len(parts)))))
         ELSE LookaheadSingleResult(args, st, g.args[args[st.argi + 2]],
                  Parse(g.args[args[st.argi + 2]], parts[st.parti + 1]))
    ELSE [kind |-> "retry"]

OrExtend(g, args, parts, st, ahead) ==
    IF ahead.kind = "retry" THEN Extend(g, args, parts, st) ELSE ahead

\* lines 417-487: a leaf is accumulating
Accumulating(g, args, parts, st) ==
    OrExtend(g, args, parts, st, Lookahead(g, args, parts, st))

\* lines 494-543: the outcome of group.check
DirectGroupResult(g, st, key, group, parsedTuple) ==
    CASE parsedTuple.kind = "value" ->
            Continue(DirectRepeat(
                [st EXCEPT !.parti = @ + parsedTuple.value[2],
                           !.parsed_args = DirectMerge(@, parsedTuple.value[1])],
                key, group.options))
      [] parsedTuple.kind = "throw" /\ ~IsArgError(parsedTuple.error) -> parsedTuple
      [] parsedTuple.kind = "diverge" -> parsedTuple
      [] OTHER -> Skip(g, group, st)

\* lines 489-492: the current slot is a group
DirectGroup(g, args, parts, st) ==
    DirectGroupResult(g, st, args[st.argi + 1], g.args[args[st.argi + 1]],
        check(g.args[args[st.argi + 1]], filterTruthy(slice(parts, st.parti, Len(parts)))))

\* lines 548-558: the outcome of the leaf's parse
DirectSingleResult(g, st, single, parsed) ==
    CASE parsed.kind = "throw" -> parsed
      [] parsed.kind = "value" ->
            Continue([st EXCEPT !.parsed_args = Push(@, single.name, parsed.value),
                                !.success_at = st.parti])
      [] OTHER -> Skip(g, single, st)

\* lines 545-546: the current slot is a leaf
DirectSingle(g, args, parts, st) ==
    DirectSingleResult(g, st, g.args[args[st.argi + 1]],
        Parse(g.args[args[st.argi + 1]], parts[st.parti + 1]))

\* lines 410-560: the body of the scan loop
Iterate(g, args, parts, st) ==
    IF st.success_at # -1 THEN Accumulating(g, args, parts, st)
    ELSE IF g.args[args[st.argi + 1]].isGroup THEN DirectGroup(g, args, parts, st)
    ELSE DirectSingle(g, args, parts, st)

\* lines 563-573
Finish(g, args, st) ==
    IF NotEnough(g, args, st.argi) THEN Null
    ELSE Value(<<st.parsed_args, st.parti>>)

\* lines 408-409: for (; argi < args.length && parti < parts.length; parti++)
RECURSIVE Scan(_, _, _, _, _)

\* the loop's parti++ after an iteration that did not return
Advance(g, args, parts, fuel, r) ==
    IF r.kind = "next"
    THEN Scan(g, args, parts, [r.st EXCEPT !.parti = @ + 1], fuel - 1)
    ELSE r

Scan(g, args, parts, st, fuel) ==
    IF ~(st.argi < Len(args) /\ st.parti < Len(parts)) THEN Finish(g, args, st)
    ELSE IF fuel = 0 THEN Diverge
    ELSE Advance(g, args, parts, fuel, Iterate(g, args, parts, st))

\* mutant: parsed_args is the object the call before returned
Fresh_SharesParsed(earlier, g) ==
    [argi |-> 0, parti |-> 0, success_at |-> -1,
     parsed_args |-> IF earlier # <<>> /\ earlier[Len(earlier)].result.kind = "value"
                     THEN earlier[Len(earlier)].result.value[1]
                     ELSE Seed(g),
     curRepeats |-> <<>>]

\* lines 372-408: the locals of a call: parsed_args = {} and its seeding,
\* curRepeats = new Map, argi = 0, parti = 0, success_at = -1; `earlier` is
\* the calls made before this one, of which the code reads nothing
Fresh(earlier, g) ==
    [argi |-> 0, parti |-> 0, success_at |-> -1,
     parsed_args |-> Seed(g), curRepeats |-> <<>>]

\* a call made after the calls of `earlier`
checkAfter(earlier, g, parts) ==
    Scan(g, ExpandArgs(g), parts, Fresh(earlier, g), MaxSteps)

check(g, parts) == checkAfter(<<>>, g, parts)

\* ------------------------------------------------------------------------
\* CommandVersion
\* ------------------------------------------------------------------------
Prefix == <<"c", ".">>

\* new CommandVersion(triggers, args): Array.isArray(args) ? args : [args]
CommandVersion(triggers, args, isArray) ==
    [triggers |-> triggers,
     args |-> ArgumentGroup(IF isArray THEN args ELSE <<args>>, NoOptions)]

RECURSIVE checkTriggerFrom(_, _, _)
checkTriggerFrom(version, content, i) ==
    IF i > Len(version.triggers) THEN Null
    ELSE LET trigger == version.triggers[i]
         IN  IF startsWith(content, Prefix \o trigger)
             THEN Value(slice(content, Len(Prefix) + Len(trigger), Len(content)))
             ELSE checkTriggerFrom(version, content, i + 1)

checkTrigger(version, content) == checkTriggerFrom(version, content, 1)

\* rest.split(" ").filter(_ => !!_)
Tokenize(rest) == filterTruthy(split(rest))

\* lines 304-315: the outcome of this.args.check
VersionChecked(version, parsedTuple) ==
    CASE parsedTuple.kind = "value" -> Value(parsedTuple.value[1])
      [] parsedTuple.kind = "throw" ->
            Throw(IF IsArgError(parsedTuple.error)
                  THEN SetField(parsedTuple.error, "version", version)
                  ELSE parsedTuple.error)
      [] OTHER -> parsedTuple

\* lines 295-302
VersionRest(version, rest) ==
    IF rest.kind # "value" THEN Null
    ELSE VersionChecked(version, check(version.args, Tokenize(rest.value)))

VersionCheck(version, content) == VersionRest(version, checkTrigger(version, content))

\* ------------------------------------------------------------------------
\* Definitions and inputs explored
\* ------------------------------------------------------------------------
TextLeaf == Argument(S_option, <<TextArgType(0)>>, FALSE, 0)
IntLeaf == Argument(S_n, <<IntegerArgType(1, 10)>>, FALSE, 0)
WideIntLeaf == Argument(S_n, <<IntegerArgType(1, 100)>>, FALSE, 0)
OrSyntax == Syntax(S_or, FALSE, 0)

\* commands/wyr.ts
MoreOptions ==
    ArgumentGroup(<<OrSyntax, TextLeaf>>, [priority |-> 1, repeat |-> TRUE, repeatMax |-> 7])

WyrArgs == ArgumentGroup(<<TextLeaf, OrSyntax, TextLeaf, MoreOptions>>, NoOptions)

None == [kind |-> "none"]

VARIABLES group, parts, result, vresult,
          command, message, pc, i, errors, executed, tried, reported,
          leaf, token, typed, yielded, text, tokens, calls,
          scan, iterations,
          disk, callers, loadedModules, registered,
          loadedCommands, cursor, reloading, reloads

vars == <<group, parts, result, vresult,
          command, message, pc, i, errors, executed, tried, reported,
          leaf, token, typed, yielded, text, tokens, calls,
          scan, iterations,
          disk, callers, loadedModules, registered,
          loadedCommands, cursor, reloading, reloads>>

matchVars == <<group, parts, result, vresult>>
dispatchVars == <<command, message, pc, i, errors, executed, tried, reported>>
unitVars == <<leaf, token, typed, yielded, text, tokens>>
scanVars == <<scan, iterations>>
serviceVars == <<disk, callers, loadedModules, registered>>
moduleVars == <<loadedCommands, cursor, reloading, reloads>>
registryVars == <<serviceVars, moduleVars>>

\* no scan is being stepped
ScanOff == scan = None /\ iterations = 0

\* no module service and no module are under study
RegistryOff ==
    /\ disk = None
    /\ callers = <<>>
    /\ loadedModules = <<>>
    /\ registered = <<>>
    /\ loadedCommands = <<>>
    /\ cursor = 0
    /\ reloading = None
    /\ reloads = <<>>

\* no leaf, no message content, no earlier call, no stepped scan and no
\* registry are under study
UnitsOff ==
    /\ leaf = None
    /\ token = <<>>
    /\ typed = None
    /\ yielded = None
    /\ text = <<>>
    /\ tokens = None
    /\ calls = <<>>
    /\ ScanOff
    /\ RegistryOff

\* ------------------------------------------------------------------------
\* The matcher applied to a drawn group definition and token sequence
\* ------------------------------------------------------------------------
MaxWords == 2
MaxRepeatMax == 2
MaxMsgTokens == 2

SeqsUpTo(S, n) == UNION {[1..k -> S] : k \in 0..n}

LeafKinds == {TextLeaf, IntLeaf, OrSyntax}
LeafTokens == {S_or, S_5}
NestTokens == {S_a, S_or, S_5, S_12}

LeafGroups == {ArgumentGroup(ls, NoOptions) : ls \in SeqsUpTo(LeafKinds, MaxLeaves)}

\* word tokens that differ with the position, so that a join shows its span
Letter(p) == CASE p % 3 = 0 -> S_a [] p % 3 = 1 -> S_b [] OTHER -> S_c

Words(len, pos) == [k \in 1..len |-> Letter(pos + k - 1)]

RECURSIVE Trail(_, _)
Trail(lens, pos) ==
    IF lens = <<>> THEN <<>>
    ELSE <<S_or>> \o Words(Head(lens), pos) \o Trail(Tail(lens), pos + Head(lens))

\* u1..um or v1..vn (or w..)*
WyrTokens(m, n, lens) == Words(m, 0) \o <<S_or>> \o Words(n, m) \o Trail(lens, m + n)

\* k occurrences of one word each, but for w words in the occurrence at `at`
\* (in every occurrence when at = 0)
Shape(k, w, at) == [j \in 1..k |-> IF at = 0 \/ j = at THEN w ELSE 1]

ShapesUpTo(n) == {Shape(k, w, at) : k \in 0..n, w \in 1..MaxWords, at \in 0..n}

TrailShapes == ShapesUpTo(MaxTrail)

\* a pattern like wyr's with a repeatMax of N, reached by lookahead or directly
Repeated(N) ==
    ArgumentGroup(<<OrSyntax, TextLeaf>>, [priority |-> 1, repeat |-> TRUE, repeatMax |-> N])

AfterText(N) == ArgumentGroup(<<TextLeaf, Repeated(N)>>, NoOptions)
Alone(N) == ArgumentGroup(<<Repeated(N)>>, NoOptions)

NestedGroups ==
    { ArgumentGroup(<<ArgumentGroup(<<IntLeaf>>, NoOptions)>>, NoOptions),
      ArgumentGroup(<<ArgumentGroup(<<IntLeaf>>, [optional |-> TRUE]), TextLeaf>>, NoOptions),
      ArgumentGroup(<<TextLeaf, ArgumentGroup(<<OrSyntax, IntLeaf>>, [priority |-> 0])>>, NoOptions),
      ArgumentGroup(<<ArgumentGroup(<<ArgumentGroup(<<OrSyntax, IntLeaf>>, NoOptions)>>, NoOptions),
                      TextLeaf>>, [partial |-> TRUE]) }

Input(g, ps) == [group |-> g, parts |-> ps]

LeafInputs == {Input(g, ps) : g \in LeafGroups, ps \in SeqsUpTo(LeafTokens, MaxTokens)}

WyrInputs ==
    {Input(WyrArgs, WyrTokens(m, n, lens)) : m \in 1..MaxWords, n \in 1..MaxWords, lens \in TrailShapes}

RepeatInputs ==
    UNION { {Input(AfterText(N), Words(1, 0) \o Trail(lens, 1)),
             Input(Alone(N), Trail(lens, 0))} :
            N \in 1..MaxRepeatMax, lens \in ShapesUpTo(MaxRepeatMax + 1) }

\* [option:Text, Syntax("or"), option:Text]
PairArgs == ArgumentGroup(<<TextLeaf, OrSyntax, TextLeaf>>, NoOptions)

PairInputs ==
    {Input(PairArgs, WyrTokens(m, n, <<>>)) : m \in 1..MaxWords, n \in 1..MaxWords}

NestedInputs == {Input(g, ps) : g \in NestedGroups, ps \in SeqsUpTo(NestTokens, MaxTokens)}

\* a first slot that may be skipped or may accumulate, before a second one
OptionalInt == Argument(S_n, <<IntegerArgType(1, 10)>>, TRUE, 0)
OptionalOr == Syntax(S_or, TRUE, 0)
ShortText == Argument(S_option, <<TextArgType(2)>>, FALSE, 0)

FirstSlots ==
    {IntLeaf, OptionalInt, OrSyntax, OptionalOr, ShortText,
     ArgumentGroup(<<IntLeaf>>, [optional |-> TRUE]),
     ArgumentGroup(<<OrSyntax>>, [optional |-> TRUE]),
     ArgumentGroup(<<OrSyntax>>, NoOptions)}

EscapeGroups ==
    {ArgumentGroup(<<x, y>>, o) :
        x \in FirstSlots, y \in {TextLeaf, OrSyntax}, o \in {NoOptions, [partial |-> TRUE]}}

EscapeInputs == {Input(g, ps) : g \in EscapeGroups, ps \in SeqsUpTo(NestTokens, MaxMsgTokens)}

\* an accumulating text leaf before a literal or a group, with priorities
\* declared or left out
TextAt(p) == Argument(S_option, <<TextArgType(0)>>, FALSE, p)
OrAt(p) == Syntax(S_or, FALSE, p)
OrInt(options) == ArgumentGroup(<<OrSyntax, IntLeaf>>, options)

PriorityGroups ==
    {ArgumentGroup(<<x, y>>, NoOptions) :
        x \in {TextAt(0), TextAt(1)},
        y \in {OrAt(0), OrAt(1), OrInt(NoOptions), OrInt([priority |-> 0]),
               OrInt([priority |-> 1])}}

PriorityInputs ==
    {Input(g, ps) : g \in PriorityGroups, ps \in SeqsUpTo({S_a, S_or, S_5}, MaxMsgTokens + 1)}

\* a repeatable child with both bounds, repeatMin declared or left out
Bounded(m, M, declared) ==
    ArgumentGroup(<<OrSyntax, TextLeaf>>,
        IF declared
        THEN [priority |-> 1, repeat |-> TRUE, repeatMin |-> m, repeatMax |-> M]
        ELSE [priority |-> 1, repeat |-> TRUE, repeatMax |-> M])

BoundedChildren ==
    {Bounded(m, M, TRUE) : m \in 1..MaxRepeatMax, M \in 1..MaxRepeatMax}
        \cup {Bounded(1, M, FALSE) : M \in 1..MaxRepeatMax}

\* the child reached by lookahead (after wyr's three leaves) or directly
ByLookahead(child) == ArgumentGroup(<<TextLeaf, OrSyntax, TextLeaf, child>>, NoOptions)
Directly(child) == ArgumentGroup(<<child>>, NoOptions)

BoundedInputs ==
    UNION { {Input(ByLookahead(c), WyrTokens(1, 1, lens)), Input(Directly(c), Trail(lens, 0))} :
            c \in {b \in BoundedChildren : MinRepeats(b.options) <= b.options.repeatMax},
            lens \in ShapesUpTo(MaxRepeatMax + 1) }

\* the version a definition is bound to, and a message that carries the tokens
VersionOf(g) == CommandVersion(<<S_wyr>>, g, FALSE)
ContentOf(trigger, ps) == Prefix \o trigger \o <<" ">> \o join(ps)

InitMatch ==
    /\ \/ \E inp \in LeafInputs : group = inp.group /\ parts = inp.parts
       \/ \E inp \in PairInputs : group = inp.group /\ parts = inp.parts
       \/ \E inp \in WyrInputs : group = inp.group /\ parts = inp.parts
       \/ \E inp \in RepeatInputs : group = inp.group /\ parts = inp.parts
       \/ \E inp \in NestedInputs : group = inp.group /\ parts = inp.parts
       \/ \E inp \in EscapeInputs : group = inp.group /\ parts = inp.parts
       \/ \E inp \in PriorityInputs : group = inp.group /\ parts = inp.parts
       \/ \E inp \in BoundedInputs : group = inp.group /\ parts = inp.parts
    /\ result = None
    /\ vresult = None
    /\ command = [versions |-> <<>>]
    /\ message = <<>>
    /\ pc = "off"
    /\ i = 0
    /\ errors = <<>>
    /\ executed = <<>>
    /\ tried = <<>>
    /\ reported = <<>>
    /\ UnitsOff

\* group.check(parts, message)
GroupCheck ==
    /\ pc = "off"
    /\ result = None
    /\ result' = check(group, parts)
    /\ UNCHANGED <<group, parts, vresult>>
    /\ UNCHANGED dispatchVars
    /\ UNCHANGED <<unitVars, calls, scanVars, registryVars>>

\* version.check(message) for the version bound to the group
VersionCheckStep ==
    /\ pc = "off"
    /\ result # None
    /\ vresult = None
    /\ vresult' = VersionCheck(VersionOf(group), ContentOf(S_wyr, parts))
    /\ UNCHANGED <<group, parts, result>>
    /\ UNCHANGED dispatchVars
    /\ UNCHANGED <<unitVars, calls, scanVars, registryVars>>

NextMatch == GroupCheck \/ VersionCheckStep

SpecMatch == InitMatch /\ [][NextMatch]_vars

\* ------------------------------------------------------------------------
\* Properties of the matcher
\* ------------------------------------------------------------------------
Matched(r) == r.kind = "value"

LeavesOnly(g) ==
    /\ \A k \in 1..Len(g.args) : ~g.args[k].isGroup
    /\ ~OptionOn(g.options, "repeat")
    /\ ~OptionOn(g.options, "partial")

\* each token satisfies the type of the leaf at the same position
Fits(g, ps) ==
    /\ Len(ps) = Len(g.args)
    /\ \A k \in 1..Len(ps) : Parse(g.args[k], ps[k]).kind = "value"

Names(g) == {g.args[k].name : k \in 1..Len(g.args)}

\* the values of the leaves called n, in declaration order
RECURSIVE InOrder(_, _, _, _)
InOrder(g, ps, n, k) ==
    IF k > Len(g.args) THEN <<>>
    ELSE (IF g.args[k].name = n THEN <<Parse(g.args[k], ps[k]).value>> ELSE <<>>)
         \o InOrder(g, ps, n, k + 1)

\* C1: a group of leaves only matches iff the token count equals the leaf
\* count and each token satisfies its leaf, and then the parsed values are
\* the leaves' values in declaration order
C1_LeavesOnlyIffFits ==
    (result # None /\ LeavesOnly(group)) =>
        /\ Matched(result) <=> Fits(group, parts)
        /\ Matched(result) =>
              result.value[1] = [n \in Names(group) |-> InOrder(group, parts, n, 1)]

\* the tokens before the first "or" and the tokens after it
RECURSIVE FirstAt(_, _, _)
FirstAt(ps, tok, k) ==
    IF k > Len(ps) THEN 0 ELSE IF ps[k] = tok THEN k ELSE FirstAt(ps, tok, k + 1)

Strings(values) == [k \in 1..Len(values) |-> values[k].value.str]

IsText(values) == \A k \in 1..Len(values) : values[k].value.js = "string"

\* words separated by single spaces
RECURSIVE Spaced(_)
Spaced(ws) ==
    IF ws = <<>> THEN <<>>
    ELSE IF Len(ws) = 1 THEN Head(ws)
    ELSE Head(ws) \o <<" ">> \o Spaced(Tail(ws))

PairCase ==
    /\ group = PairArgs
    /\ FirstAt(parts, S_or, 1) > 1
    /\ FirstAt(parts, S_or, 1) < Len(parts)

\* C2: [option:Text, "or", option:Text] on u1..um or v1..vn binds option to
\* the u's joined by single spaces, then the v's joined by single spaces
C2_PairBindsTwoOptions ==
    (result # None /\ PairCase) =>
        LET at == FirstAt(parts, S_or, 1)
        IN  /\ Matched(result)
            /\ IsText(result.value[1][S_option])
            /\ Strings(result.value[1][S_option]) =
                  <<Spaced(SubSeq(parts, 1, at - 1)), Spaced(SubSeq(parts, at + 1, Len(parts)))>>

C2_Witness ==
    /\ PairCase
    /\ parts = <<S_a, S_b, S_or, S_c>>
    /\ Matched(result)
    /\ Strings(result.value[1][S_option]) = <<<<"a", " ", "b">>, <<"c">>>>

\* the runs of tokens between the "or" tokens
RECURSIVE Segments(_, _)
Segments(ps, cur) ==
    IF ps = <<>> THEN <<cur>>
    ELSE IF Head(ps) = S_or THEN <<cur>> \o Segments(Tail(ps), <<>>)
    ELSE Segments(Tail(ps), Append(cur, Head(ps)))

Occurrences(ps) == Len(Segments(ps, <<>>)) - 1

WellFormed(ps) == \A k \in 1..Len(Segments(ps, <<>>)) : Segments(ps, <<>>)[k] # <<>>

WyrCase(lo, hi) ==
    /\ group = WyrArgs
    /\ WellFormed(parts)
    /\ Occurrences(parts) - 1 >= lo
    /\ Occurrences(parts) - 1 <= hi

JoinedSegments(ps) ==
    [k \in 1..Len(Segments(ps, <<>>)) |-> Spaced(Segments(ps, <<>>)[k])]

\* C3: with the wyr pattern, each of 1..repeatMax trailing occurrences of
\* "or" and its text appends one value to option, the text joined by spaces
C3_TrailingOptionsAppend ==
    (result # None /\ WyrCase(1, MoreOptions.options.repeatMax)) =>
        /\ Matched(result)
        /\ IsText(result.value[1][S_option])
        /\ Strings(result.value[1][S_option]) = JoinedSegments(parts)
        /\ vresult # None =>
              /\ Matched(vresult)
              /\ Strings(vresult.value[S_option]) = JoinedSegments(parts)

C3_Witness ==
    /\ group = WyrArgs
    /\ parts = <<S_a, S_b, S_or, S_c, S_or, S_a, S_b, S_or, S_c, S_a>>
    /\ Matched(vresult)
    /\ Strings(vresult.value[S_option]) =
          <<<<"a", " ", "b">>, <<"c">>, <<"a", " ", "b">>, <<"c", " ", "a">>>>

C3_WitnessMax ==
    /\ WyrCase(MoreOptions.options.repeatMax, MoreOptions.options.repeatMax)
    /\ Matched(vresult)
    /\ Len(vresult.value[S_option]) = 2 + MoreOptions.options.repeatMax

\* the repeatable child of the group, when the group is one of the repeat cases
RepeatChild ==
    IF group = WyrArgs THEN MoreOptions
    ELSE group.args[Len(group.args)]

\* occurrences of the repeatable child the tokens carry
Carried == IF group = WyrArgs THEN Occurrences(parts) - 1 ELSE Occurrences(parts)

RepeatCase ==
    /\ \/ group = WyrArgs
       \/ \E N \in 1..MaxRepeatMax : group \in {AfterText(N), Alone(N)}
    /\ WellFormed(IF group.args[1].isGroup THEN <<S_a>> \o parts ELSE parts)
    /\ Carried >= 1

\* the values bound to option beyond those of the parent's own text leaves
Bound(parsed) ==
    IF S_option \in DOMAIN parsed
    THEN Len(parsed[S_option]) - Cardinality({k \in 1..Len(group.args) : group.args[k] = TextLeaf})
    ELSE 0

\* C4: a child with repeatMax = N is matched at most N times, and tokens
\* that carry an (N+1)-th occurrence are rejected by the parent and by the
\* command version
C4_ExcessRepetitionRejected ==
    (result # None /\ RepeatCase) =>
        /\ Matched(result) => Bound(result.value[1]) <= RepeatChild.options.repeatMax
        /\ Carried > RepeatChild.options.repeatMax =>
              /\ result = Null
              /\ vresult # None => vresult = Null

\* C5: a match never succeeds while tokens remain that no slot consumed
C5_UnreadTokensRejected ==
    /\ Matched(result) => result.value[2] >= Len(parts)
    /\ Matched(vresult) => Matched(result) /\ result.value[2] >= Len(parts)

RaisedArgError(r) == r.kind = "throw" /\ IsArgError(r.error)

\* C6: an ArgError that leaves a group's check is raised by the check of
\* every group that encloses it, up to CommandVersion.check
C6_ValidationErrorPropagates ==
    (RaisedArgError(result) /\ vresult # None) =>
        /\ RaisedArgError(vresult)
        /\ vresult.error.message = result.error.message

IsSyntax(node) == ~node.isGroup /\ node.class = "Syntax"

\* C10: a literal matches only an equal token, leaves only true markers,
\* and a group with a mandatory literal does not match tokens without it
C10_SyntaxMandatory ==
    (result # None /\ LeavesOnly(group)) =>
        \A k \in 1..Len(group.args) :
            IsSyntax(group.args[k]) =>
                /\ \A p \in LeafTokens :
                      (SyntaxParse(group.args[k], p).kind = "value") <=> (p = group.args[k].name)
                /\ Matched(result) =>
                      /\ \A j \in 1..Len(result.value[1][group.args[k].name]) :
                            result.value[1][group.args[k].name][j] = ParsedArg(TrueValue, NullType)
                      /\ ~group.args[k].optional =>
                            \E j \in 1..Len(parts) : parts[j] = group.args[k].name

\* ------------------------------------------------------------------------
\* Command.check: the dispatch of one message over the versions of a command
\* ------------------------------------------------------------------------
MaxVersions == 2

WyrVersion == CommandVersion(<<S_wyr>>, WyrArgs, FALSE)
NumVersion == CommandVersion(<<S_num>>, <<IntLeaf>>, TRUE)
WideVersion == CommandVersion(<<S_num, S_n>>, <<WideIntLeaf>>, TRUE)
TextVersion == CommandVersion(<<S_num>>, <<TextLeaf>>, TRUE)

Versions == {WyrVersion, NumVersion, WideVersion, TextVersion}

Commands == {[versions |-> vs] : vs \in SeqsUpTo(Versions, MaxVersions)}

Triggers == {S_wyr, S_num, S_c}

\* short token sequences, and sequences that the wyr pattern matches
MessageTokens ==
    SeqsUpTo(NestTokens, MaxMsgTokens)
        \cup {WyrTokens(1, 1, lens) : lens \in ShapesUpTo(1)}

Messages == {ContentOf(t, ps) : t \in Triggers, ps \in MessageTokens}

\* what this.exec(cmd, message) may do: return, or throw
HandlerOutcomes == {"return", "ArgError", "Error"}

InitDispatch ==
    /\ group = ArgumentGroup(<<>>, NoOptions)
    /\ parts = <<>>
    /\ result = None
    /\ vresult = None
    /\ command \in Commands
    /\ message \in Messages
    /\ pc = "loop"
    /\ i = 0
    /\ errors = <<>>
    /\ executed = <<>>
    /\ tried = <<>>
    /\ reported = <<>>
    /\ UnitsOff

\* const parsed = version.check(message) for the version at i
Parsed == VersionCheck(command.versions[i + 1], message)

\* mutant: the error is put in front
Collect_InFront(errs, e) == <<e>> \o errs

\* errors.push(e)
Collect(errs, e) == Append(errs, e)

\* if (errors.length) logger.error("Errors:", errors)
Report(log, errs) == IF Len(errs) # 0 THEN Append(log, errs) ELSE log

\* lines 228-234, and the catch of what exec throws
VersionMatches(parsed, outcome) ==
    /\ pc = "loop"
    /\ i < Len(command.versions)
    /\ parsed.kind = "value"
    /\ tried' = Append(tried, i)
    /\ executed' = Append(executed, [version |-> i, args |-> parsed.value])
    /\ CASE outcome = "return" -> pc' = "done" /\ UNCHANGED <<i, errors>>
         [] outcome = "ArgError" ->
                /\ errors' = Collect(errors, ArgError("thrown by exec"))
                /\ i' = i + 1
                /\ pc' = pc
         [] OTHER -> pc' = "threw" /\ UNCHANGED <<i, errors>>
    /\ UNCHANGED <<command, message, reported>>
    /\ UNCHANGED matchVars
    /\ UNCHANGED <<unitVars, calls, scanVars, registryVars>>

\* version.check returned null: the loop goes on
VersionSkipped(parsed) ==
    /\ pc = "loop"
    /\ i < Len(command.versions)
    /\ parsed.kind = "null"
    /\ tried' = Append(tried, i)
    /\ i' = i + 1
    /\ UNCHANGED <<command, message, pc, errors, executed, reported>>
    /\ UNCHANGED matchVars
    /\ UNCHANGED <<unitVars, calls, scanVars, registryVars>>

\* lines 235-242: version.check threw
VersionThrows(parsed) ==
    /\ pc = "loop"
    /\ i < Len(command.versions)
    /\ parsed.kind \in {"throw", "diverge"}
    /\ tried' = Append(tried, i)
    /\ IF parsed.kind = "throw" /\ IsArgError(parsed.error)
       THEN /\ errors' = Collect(errors, parsed.error)
            /\ i' = i + 1
            /\ pc' = pc
       ELSE /\ pc' = "threw"
            /\ UNCHANGED <<i, errors>>
    /\ UNCHANGED <<command, message, executed, reported>>
    /\ UNCHANGED matchVars
    /\ UNCHANGED <<unitVars, calls, scanVars, registryVars>>

\* line 245: the loop is over
LoopEnds ==
    /\ pc = "loop"
    /\ i = Len(command.versions)
    /\ reported' = Report(reported, errors)
    /\ pc' = "done"
    /\ UNCHANGED <<command, message, i, errors, executed, tried>>
    /\ UNCHANGED matchVars
    /\ UNCHANGED <<unitVars, calls, scanVars, registryVars>>

\* lines 222-246: one turn of the loop over the versions, or its end
Next ==
    \/ \E outcome \in HandlerOutcomes : VersionMatches(Parsed, outcome)
    \/ VersionSkipped(Parsed)
    \/ VersionThrows(Parsed)
    \/ LoopEnds

Spec == InitDispatch /\ [][Next]_vars


\* ------------------------------------------------------------------------
\* Properties of the dispatch
\* ------------------------------------------------------------------------
\* what version.check gives for the version at position k (1-based)
Outcome(k) == VersionCheck(command.versions[k], message)

RaisedBy(k) == RaisedArgError(Outcome(k))

RECURSIVE FirstMatchingFrom(_)
FirstMatchingFrom(k) ==
    IF k > Len(command.versions) THEN 0
    ELSE IF Matched(Outcome(k)) THEN k
    ELSE FirstMatchingFrom(k + 1)

\* the first version whose trigger and argument group match, or 0
FirstMatching == FirstMatchingFrom(1)

\* the validation failures of all versions, in version order
RECURSIVE FailuresFrom(_)
FailuresFrom(k) ==
    IF k > Len(command.versions) THEN <<>>
    ELSE (IF RaisedBy(k) THEN <<Outcome(k).error>> ELSE <<>>) \o FailuresFrom(k + 1)

Over == pc \in {"done", "threw"}

\* C7: the first version that matches has its handler executed exactly once
\* with the parsed arguments, no later version is tried, and at most one
\* handler executes for a message, whatever the handler does
C7_FirstMatchExecutesOnce ==
    /\ Len(executed) <= 1
    /\ \A k \in 1..Len(executed) :
          /\ executed[k].version + 1 = FirstMatching
          /\ executed[k].args = Outcome(FirstMatching).value
    /\ executed # <<>> => tried[Len(tried)] = executed[1].version
    /\ (Over /\ FirstMatching # 0) => Len(executed) = 1

\* C8: a version whose argument match raises does not execute, its error is
\* collected and the next version is tried; when every version fails, what
\* is handed to diagnostics is the failures of all versions in version order
C8_FailuresCollectedInOrder ==
    /\ \A k \in 1..Len(tried) :
          RaisedBy(tried[k] + 1) =>
              /\ \A x \in 1..Len(executed) : executed[x].version # tried[k]
              /\ \E j \in 1..Len(errors) : errors[j] = Outcome(tried[k] + 1).error
              /\ IF k < Len(tried) THEN tried[k + 1] = tried[k] + 1 ELSE i = tried[k] + 1
    /\ (pc = "done" /\ FirstMatching = 0) =>
          reported = (IF FailuresFrom(1) = <<>> THEN <<>> ELSE <<FailuresFrom(1)>>)

C8_Witness ==
    /\ pc = "done"
    /\ Len(command.versions) = 2
    /\ RaisedBy(1)
    /\ RaisedBy(2)
    /\ executed = <<>>
    /\ Len(reported) = 1
    /\ Len(reported[1]) = 2
    /\ reported[1][1] # reported[1][2]
    /\ reported[1][1].version = command.versions[1]

\* C9: diagnostics are invoked only if no handler executed, and only the
\* versions that failed validation contribute an entry
C9_ReportOnlyIfNothingExecuted ==
    /\ reported # <<>> => executed = <<>>
    /\ \A r \in 1..Len(reported) :
          \A j \in 1..Len(reported[r]) :
              \E k \in 1..Len(command.versions) :
                  RaisedBy(k) /\ reported[r][j] = Outcome(k).error

\* ------------------------------------------------------------------------
\* A leaf applied to one token, and the tokens of a message
\* ------------------------------------------------------------------------
MaxTypes == 2
MaxRest == 4

S_abc == <<"a", "b", "c">>
S_1 == <<"1">>
S_10 == <<"1", "0">>
S_05 == <<"0", "5">>
S_100 == <<"1", "0", "0">>
S_101 == <<"1", "0", "1">>
S_5a == <<"5", "a">>

TypeKinds ==
    {IntegerArgType(0, 10), IntegerArgType(1, 10), IntegerArgType(1, 100),
     TextArgType(0), TextArgType(2)}

Leaves ==
    {Argument(S_n, ts, o, 0) : ts \in SeqsUpTo(TypeKinds, MaxTypes), o \in BOOLEAN}
        \cup {Syntax(S_or, o, 0) : o \in BOOLEAN}

Tokens == {S_0, S_1, S_5, S_05, S_10, S_12, S_100, S_101, S_a, S_abc, S_5a, S_or}

\* the characters of the remainder of a message
Chars == {"a", " ", "\t", "\n"}

Contents == {Prefix \o S_wyr \o rest : rest \in SeqsUpTo(Chars, MaxRest)}

InitLeaf ==
    /\ \/ /\ leaf \in Leaves
          /\ token \in Tokens
          /\ text = <<>>
       \/ /\ leaf = None
          /\ token = <<>>
          /\ text \in Contents
    /\ typed = None
    /\ yielded = None
    /\ tokens = None
    /\ calls = <<>>
    /\ ScanOff
    /\ RegistryOff
    /\ group = ArgumentGroup(<<>>, NoOptions)
    /\ parts = <<>>
    /\ result = None
    /\ vresult = None
    /\ command = [versions |-> <<>>]
    /\ message = <<>>
    /\ pc = "off"
    /\ i = 0
    /\ errors = <<>>
    /\ executed = <<>>
    /\ tried = <<>>
    /\ reported = <<>>

\* type.parse(part, message) for each type of the leaf
TypeParseStep ==
    /\ leaf # None
    /\ typed = None
    /\ typed' = Value([k \in 1..Len(leaf.types) |-> TypeParse(leaf.types[k], token)])
    /\ UNCHANGED <<leaf, token, yielded, text, tokens, calls>>
    /\ UNCHANGED <<matchVars, dispatchVars, scanVars, registryVars>>

\* single.parse(part, message)
ArgumentParseStep ==
    /\ leaf # None
    /\ yielded = None
    /\ yielded' = Parse(leaf, token)
    /\ UNCHANGED <<leaf, token, typed, text, tokens, calls>>
    /\ UNCHANGED <<matchVars, dispatchVars, scanVars, registryVars>>

\* lines 293-299: the parts that version.check hands to this.args.check
Handed(version, rest) ==
    IF rest.kind # "value" THEN Null ELSE Value(Tokenize(rest.value))

TokenizeStep ==
    /\ leaf = None
    /\ tokens = None
    /\ tokens' = Handed(WyrVersion, checkTrigger(WyrVersion, text))
    /\ UNCHANGED <<leaf, token, typed, yielded, text, calls>>
    /\ UNCHANGED <<matchVars, dispatchVars, scanVars, registryVars>>

NextLeaf == TypeParseStep \/ ArgumentParseStep \/ TokenizeStep

SpecLeaf == InitLeaf /\ [][NextLeaf]_vars

\* ------------------------------------------------------------------------
\* Properties of the leaves and of the tokens
\* ------------------------------------------------------------------------
IsInteger(type) == type.name = "Integer"

OnlyInteger(l) == l.class = "Argument" /\ Len(l.types) = 1 /\ IsInteger(l.types[1])

\* C11: on a token that is not a non-empty string of digits, the integer
\* matcher and a leaf whose only type is Integer give no match and raise
\* no ArgError
C11_FormatFailureIsNoMatch ==
    /\ typed # None =>
          \A k \in 1..Len(leaf.types) :
              (IsInteger(leaf.types[k]) /\ ~IntegerRegExp(token)) => typed.value[k] = Null
    /\ (yielded # None /\ leaf # None /\ OnlyInteger(leaf) /\ ~IntegerRegExp(token)) =>
          yielded = Null

\* C12: a leaf whose only type is Integer [min, max], on digits of value n,
\* yields n when min <= n <= max (0 included) and raises an ArgError that
\* names the leaf otherwise
C12_IntegerInRangeYieldsValue ==
    (yielded # None /\ leaf # None /\ OnlyInteger(leaf) /\ IntegerRegExp(token)) =>
        IF leaf.types[1].min <= parseInt(token) /\ parseInt(token) <= leaf.types[1].max
        THEN yielded = Value(ParsedArg(NumValue(parseInt(token)), leaf.types[1]))
        ELSE /\ RaisedArgError(yielded)
             /\ "arg" \in DOMAIN yielded.error
             /\ yielded.error.arg = leaf

\* the lowest index of a type that succeeds on the token, or 0
RECURSIVE FirstSuccessFrom(_, _, _)
FirstSuccessFrom(l, t, k) ==
    IF k > Len(l.types) THEN 0
    ELSE IF TypeParse(l.types[k], t).kind = "value" THEN k
    ELSE FirstSuccessFrom(l, t, k + 1)

FirstSuccess(l, t) == FirstSuccessFrom(l, t, 1)

\* C13: Argument.parse returns the value and the type of the lowest-index
\* type that succeeds on the token; a type that does not match does not keep
\* the later ones from being tried
C13_FirstSucceedingTypeWins ==
    (yielded # None /\ leaf # None /\ leaf.class = "Argument"
        /\ FirstSuccess(leaf, token) # 0) =>
        yielded = Value(ParsedArg(TypeParse(leaf.types[FirstSuccess(leaf, token)], token).value,
                                  leaf.types[FirstSuccess(leaf, token)]))

Whitespace == {" ", "\t", "\n"}

\* the maximal substrings without whitespace, in order
RECURSIVE FieldsFrom(_, _)
FieldsFrom(s, cur) ==
    IF s = <<>> THEN (IF cur = <<>> THEN <<>> ELSE <<cur>>)
    ELSE IF Head(s) \in Whitespace
         THEN (IF cur = <<>> THEN <<>> ELSE <<cur>>) \o FieldsFrom(Tail(s), <<>>)
    ELSE FieldsFrom(Tail(s), Append(cur, Head(s)))

Fields(s) == FieldsFrom(s, <<>>)

\* C17: the tokens handed to the root group are the maximal whitespace-free
\* substrings of the remainder, in order; none is empty and none holds a
\* space, a tab or a newline
C17_TokensAreWhitespaceFree ==
    (tokens # None /\ tokens.kind = "value") =>
        /\ tokens.value = Fields(checkTrigger(WyrVersion, text).value)
        /\ \A k \in 1..Len(tokens.value) :
              /\ tokens.value[k] # <<>>
              /\ \A j \in 1..Len(tokens.value[k]) : tokens.value[k][j] \notin Whitespace

\* the fields of an ArgError (lines 29-33)
ArgErrorFields == {"message", "type", "arg", "version"}

\* C14: every validation failure that Command.check collects carries a
\* message, the offending leaf, the offending type and the version it arose
\* in, the version being the one whose check raised it
C14_CollectedErrorsCarryAllFields ==
    executed = <<>> =>
        \A j \in 1..Len(errors) :
            /\ ArgErrorFields \subseteq DOMAIN errors[j]
            /\ \E k \in 1..Len(tried) :
                  /\ RaisedBy(tried[k] + 1)
                  /\ errors[j].version = command.versions[tried[k] + 1]

\* the names of the leaves reachable in a group, nested groups included
RECURSIVE LeafNames(_)
LeafNames(g) ==
    UNION { IF g.args[k].isGroup THEN LeafNames(g.args[k]) ELSE {g.args[k].name} :
            k \in 1..Len(g.args) }

\* C15: after a successful match of a group, and of the version bound to
\* it, the parsed arguments have an entry for every leaf name reachable in
\* the group, nested groups included
C15_EveryLeafNameHasEntry ==
    /\ Matched(result) => LeafNames(group) \subseteq DOMAIN result.value[1]
    /\ Matched(vresult) => LeafNames(group) \subseteq DOMAIN vresult.value

\* ------------------------------------------------------------------------
\* The same group definition matched several times in a row
\* ------------------------------------------------------------------------
MaxCalls == 3

CallGroups ==
    {WyrArgs, PairArgs, AfterText(MaxRepeatMax),
     ArgumentGroup(<<ArgumentGroup(<<IntLeaf>>, [optional |-> TRUE]), TextLeaf>>, NoOptions)}

CallTokens ==
    {WyrTokens(1, 1, <<>>), WyrTokens(1, 1, <<1>>), WyrTokens(1, 2, <<1, 1>>),
     WyrTokens(2, 1, <<1, 2, 1>>), <<S_5>>, <<S_a, S_or, S_5>>}

InitCalls ==
    /\ group \in CallGroups
    /\ parts = <<>>
    /\ result = None
    /\ vresult = None
    /\ calls = <<>>
    /\ ScanOff
    /\ RegistryOff
    /\ leaf = None
    /\ token = <<>>
    /\ typed = None
    /\ yielded = None
    /\ text = <<>>
    /\ tokens = None
    /\ command = [versions |-> <<>>]
    /\ message = <<>>
    /\ pc = "off"
    /\ i = 0
    /\ errors = <<>>
    /\ executed = <<>>
    /\ tried = <<>>
    /\ reported = <<>>

\* group.check(ps, message), once more on the same group object
CheckAgain(ps) ==
    /\ Len(calls) < MaxCalls
    /\ parts' = ps
    /\ result' = checkAfter(calls, group, ps)
    /\ calls' = Append(calls, [parts |-> ps, result |-> result'])
    /\ UNCHANGED <<group, vresult>>
    /\ UNCHANGED <<unitVars, dispatchVars, scanVars, registryVars>>

NextCalls == \E ps \in CallTokens : CheckAgain(ps)

SpecCalls == InitCalls /\ [][NextCalls]_vars

TokensOf(v) ==
    IF v.value.js = "string"
    THEN 1 + Cardinality({k \in 1..Len(v.value.str) : v.value.str[k] = " "})
    ELSE 1

RECURSIVE TokensIn(_)
TokensIn(values) ==
    IF values = <<>> THEN 0 ELSE TokensOf(Head(values)) + TokensIn(Tail(values))

\* the number of tokens the values of some names were built from
RECURSIVE BuiltOver(_, _)
BuiltOver(pa, names) ==
    IF names = {} THEN 0
    ELSE LET n == CHOOSE x \in names : TRUE
         IN  TokensIn(pa[n]) + BuiltOver(pa, names \ {n})

Built(pa) == BuiltOver(pa, DOMAIN pa)

HasChildGroup(g) == \E k \in 1..Len(g.args) : g.args[k].isGroup

\* the count a child matched at the first slot reports to its parent
FirstChild == check(group.args[1], parts)

\* C18: the count a child group reports is the number of tokens its values
\* were built from, and across a successful parent match every token is
\* consumed by exactly one slot: none is skipped and none is read twice
C18_CountIsTokensConsumed ==
    (result # None /\ HasChildGroup(group)) =>
        /\ (group.args[1].isGroup /\ Matched(FirstChild)) =>
              FirstChild.value[2] = Built(FirstChild.value[1])
        /\ (Matched(result) /\ result.value[2] >= Len(parts)) =>
              Built(result.value[1]) = Len(parts)

\* a leaf whose types are all Integer
AllInteger(node) ==
    /\ node.class = "Argument"
    /\ node.types # <<>>
    /\ \A k \in 1..Len(node.types) : IsInteger(node.types[k])

\* the node does not fit the tokens: a group finds no match, a literal is
\* not equal to the first token, an integer leaf faces a non-digit token
Unfit(node, ps) ==
    IF node.isGroup THEN check(node, ps) = Null
    ELSE \/ Parse(node, ps[1]) = Null
         \/ AllInteger(node) /\ ~IntegerRegExp(ps[1])

\* the scan of the group resumed at slot argi and token parti
ResumedAt(g, ps, argi, parti, pa) ==
    Scan(g, ExpandArgs(g), ps,
         [argi |-> argi, parti |-> parti, success_at |-> -1,
          parsed_args |-> pa, curRepeats |-> <<>>],
         MaxSteps)

FirstSlotCase == result # None /\ parts # <<>> /\ group.args # <<>>

\* C19: when the direct attempt of a slot fails on a token, the slot is
\* skipped and the same token goes to the next slot if the slot's node is
\* optional or the group is partial; otherwise the group gives no match
C19_FailedSlotSkippedOrNoMatch ==
    (FirstSlotCase /\ Unfit(group.args[1], parts)) =>
        IF CanSkip(group, group.args[1])
        THEN result = ResumedAt(group, parts, 1, 0, Seed(group))
        ELSE result = Null

\* the first slot is a leaf that took the first token, the lookahead on the
\* second token did not succeed and the widened span does not parse
ClosingCase ==
    /\ FirstSlotCase
    /\ Len(parts) >= 2
    /\ ~group.args[1].isGroup
    /\ Parse(group.args[1], parts[1]).kind = "value"
    /\ Lookahead(group, ExpandArgs(group), parts,
                 [argi |-> 0, parti |-> 1, success_at |-> 0,
                  parsed_args |-> Push(Seed(group), group.args[1].name,
                                       Parse(group.args[1], parts[1]).value),
                  curRepeats |-> <<>>]).kind = "retry"
    /\ Parse(group.args[1], join(slice(parts, 0, 2))).kind # "value"

\* C20: when the lookahead does not succeed and the widened span fails to
\* parse, the active leaf keeps its last good value, the slot cursor moves
\* on and the same token goes to the next slot; the match is not aborted
C20_FailedExtensionClosesAccumulation ==
    ClosingCase =>
        result = ResumedAt(group, parts, 1, 1,
                           Push(Seed(group), group.args[1].name,
                                Parse(group.args[1], parts[1]).value))

\* the priority of a node, 0 when none is declared
PriorityOf(node) ==
    IF "priority" \in DOMAIN OptionsOf(node) THEN OptionsOf(node).priority ELSE 0

\* the leaf at the first slot took the first token and a second slot and a
\* second token follow
AccumulatingCase ==
    /\ FirstSlotCase
    /\ Len(parts) >= 2
    /\ Len(group.args) >= 2
    /\ ~OptionOn(group.options, "repeat")
    /\ ~group.args[1].isGroup
    /\ Parse(group.args[1], parts[1]).kind = "value"

\* the state of the scan when the second token is examined
AtSecondToken ==
    [argi |-> 0, parti |-> 1, success_at |-> 0,
     parsed_args |-> Push(Seed(group), group.args[1].name,
                          Parse(group.args[1], parts[1]).value),
     curRepeats |-> <<>>]

\* the next slot, tried on the tokens from the second on, succeeds
NextFits ==
    IF group.args[2].isGroup
    THEN check(group.args[2], slice(parts, 1, Len(parts))).kind = "value"
    ELSE Parse(group.args[2], parts[2]).kind = "value"

\* what the attempt of the next slot gives at the second token
AtLookahead == Lookahead(group, ExpandArgs(group), parts, AtSecondToken)

\* C21: while a leaf accumulates, the next slot is attempted on the current
\* token iff its priority (0 when undeclared, for leaves and groups) is at
\* least the leaf's: on a tie a succeeding next slot takes the token, and a
\* next slot of lower priority never takes it
C21_LookaheadIffPriorityAllows ==
    AccumulatingCase =>
        /\ (PriorityOf(group.args[2]) >= PriorityOf(group.args[1]) /\ NextFits) =>
              AtLookahead.kind # "retry"
        /\ PriorityOf(group.args[2]) < PriorityOf(group.args[1]) =>
              AtLookahead.kind = "retry"

\* the second slot is a group that the lookahead matched
LookaheadGroupCase ==
    /\ AccumulatingCase
    /\ group.args[2].isGroup
    /\ PriorityAllows(group.args[1], group.args[2])
    /\ NextFits

\* the parsed arguments of the child that the lookahead matched
ChildParsed == check(group.args[2], slice(parts, 1, Len(parts))).value[1]

\* C24: a child matched by lookahead is merged as a child matched directly
\* is: its values are appended in order under every name it produced, also
\* names the parent declares no leaf for, and the merge never fails
C24_LookaheadMergesAsDirect ==
    /\ ~(result.kind = "throw" /\ ~IsArgError(result.error))
    /\ LookaheadGroupCase =>
          LookaheadMerge(AtSecondToken.parsed_args, ChildParsed)
              = Value(DirectMerge(AtSecondToken.parsed_args, ChildParsed))

\* the group is a parent of a repeatable child with both bounds
BoundedCase ==
    /\ result # None
    /\ \E c \in BoundedChildren : group \in {ByLookahead(c), Directly(c)}

BoundedChild == group.args[Len(group.args)]

\* the occurrences of the child that the tokens carry, and their texts
ChildSegments ==
    IF Len(group.args) = 1
    THEN Tail(JoinedSegments(parts))
    ELSE Tail(Tail(JoinedSegments(parts)))

\* the texts bound to option by the child's occurrences
ChildOptions(pa) ==
    IF Len(group.args) = 1
    THEN Strings(pa[S_option])
    ELSE Tail(Tail(Strings(pa[S_option])))

\* the same parent with the child's repeatMin declared as 1
DeclaredOne ==
    [group EXCEPT !.args[Len(group.args)].options =
        [priority |-> 1, repeat |-> TRUE, repeatMin |-> 1,
         repeatMax |-> BoundedChild.options.repeatMax]]

\* C22: with repeatMin = m <= repeatMax = M declared on a repeatable child,
\* tokens that carry k occurrences match for m <= k <= M, with one set of
\* values per occurrence, and do not match for k < m; leaving repeatMin out
\* is the same as declaring 1; all this by lookahead and directly
C22_OccurrencesWithinBounds ==
    BoundedCase =>
        /\ (MinRepeats(BoundedChild.options) <= Len(ChildSegments)
                /\ Len(ChildSegments) <= BoundedChild.options.repeatMax) =>
              /\ Matched(result)
              /\ ChildOptions(result.value[1]) = ChildSegments
              /\ Len(result.value[1][S_or]) = Cardinality({k \in 1..Len(parts) : parts[k] = S_or})
        /\ Len(ChildSegments) < MinRepeats(BoundedChild.options) => result = Null
        /\ "repeatMin" \notin DOMAIN BoundedChild.options => result = check(DeclaredOne, parts)

\* ------------------------------------------------------------------------
\* The scan loop of ArgumentGroup.check, one iteration at a time
\* ------------------------------------------------------------------------

\* two optional literals before two text leaves: on two words the early
\* return reports parti - 2 = -1
TwoBeforeTwo ==
    ArgumentGroup(<<OptionalOr, OptionalOr, TextLeaf, TextLeaf>>, [priority |-> 0])

\* a repeatable pattern without repeatMax: its slot is held while tokens remain
Unbounded == ArgumentGroup(<<OptionalOr, TextLeaf>>, [priority |-> 1, repeat |-> TRUE])

ScanGroups ==
    EscapeGroups \cup NestedGroups
        \cup {Alone(N) : N \in 1..MaxRepeatMax} \cup {Repeated(N) : N \in 1..MaxRepeatMax}
        \cup {WyrArgs, TwoBeforeTwo, Unbounded,
              ArgumentGroup(<<Unbounded>>, NoOptions),
              ArgumentGroup(<<TwoBeforeTwo, TextLeaf>>, NoOptions),
              ArgumentGroup(<<OrSyntax, TextLeaf, TwoBeforeTwo>>, NoOptions),
              ArgumentGroup(<<OrSyntax, OrSyntax, TextLeaf>>, NoOptions)}

ScanTokens == SeqsUpTo({S_a, S_or, S_5}, MaxTokens)

\* more iterations than any drawn group and token sequence has slots and tokens
MaxIterations == 16

\* lines 371-408: check was called and has set up its locals
InitScan ==
    /\ group \in ScanGroups
    /\ parts \in ScanTokens
    /\ scan = Continue(Fresh(<<>>, group))
    /\ iterations = 0
    /\ result = None
    /\ vresult = None
    /\ command = [versions |-> <<>>]
    /\ message = <<>>
    /\ pc = "off"
    /\ i = 0
    /\ errors = <<>>
    /\ executed = <<>>
    /\ tried = <<>>
    /\ reported = <<>>
    /\ leaf = None
    /\ token = <<>>
    /\ typed = None
    /\ yielded = None
    /\ text = <<>>
    /\ tokens = None
    /\ calls = <<>>
    /\ RegistryOff

\* line 409: argi < args.length && parti < parts.length
InLoop(g, ps, st) == st.argi < Len(ExpandArgs(g)) /\ st.parti < Len(ps)

\* the loop's parti++ after an iteration that did not return
Stepped(r) ==
    IF r.kind = "next" THEN Continue([r.st EXCEPT !.parti = @ + 1]) ELSE r

\* lines 409-561: one iteration of the loop
ScanStep ==
    /\ scan.kind = "next"
    /\ InLoop(group, parts, scan.st)
    /\ iterations < MaxIterations
    /\ scan' = Stepped(Iterate(group, ExpandArgs(group), parts, scan.st))
    /\ iterations' = iterations + 1
    /\ UNCHANGED <<matchVars, dispatchVars, unitVars, calls, registryVars>>

\* lines 563-573: the loop condition fails
ScanEnds ==
    /\ scan.kind = "next"
    /\ ~InLoop(group, parts, scan.st)
    /\ scan' = Finish(group, ExpandArgs(group), scan.st)
    /\ UNCHANGED iterations
    /\ UNCHANGED <<matchVars, dispatchVars, unitVars, calls, registryVars>>

NextScan == ScanStep \/ ScanEnds

SpecScan == InitScan /\ [][NextScan]_vars

\* an iteration that stays in the loop moves neither cursor back and moves
\* one of them forward
NetProgress ==
    scan'.kind = "next" =>
        /\ scan'.st.argi >= scan.st.argi
        /\ scan'.st.parti >= scan.st.parti
        /\ scan'.st.argi > scan.st.argi \/ scan'.st.parti > scan.st.parti

\* C23: ArgumentGroup.check terminates on every group and token sequence:
\* every iteration of the scan loop that does not return advances the slot
\* cursor or the token cursor and moves neither back, so the loop runs at
\* most as many iterations as there are slots and tokens together; no
\* nested call runs on forever, and the loop ends with the outcome of check
C23_ScanTerminates ==
    /\ [][ScanStep => NetProgress]_vars
    /\ [](scan.kind # "diverge")
    /\ [](scan.kind = "next" =>
            /\ iterations <= scan.st.argi + scan.st.parti
            /\ InLoop(group, parts, scan.st) =>
                  iterations <= Len(ExpandArgs(group)) + Len(parts) - 2)
    /\ [](scan.kind \notin {"next", "none"} => scan = check(group, parts))

\* a slot was skipped on the first token: the token cursor was decremented
\* and the same token is presented to the next slot
C23_Witness ==
    /\ scan.kind = "next"
    /\ scan.st.argi > 0
    /\ scan.st.parti = 0
    /\ InLoop(group, parts, scan.st)

\* ------------------------------------------------------------------------
\* ModuleService.load called several times for one module
\* ------------------------------------------------------------------------
MaxCallers == 3
MaxFiles == 2

Callers == 1..MaxCallers

\* what import(dirname) settles with: a Module subclass, a rejection with
\* "Cannot find module", a class that is no Module, no default export, or
\* a rejection with another error
Exports == {"module", "missing", "object", "nothing", "error"}

S_fun == <<"f", "u", "n">>

Undefined == [kind |-> "undefined"]

\* neither the matcher nor the dispatcher is under study
MatcherOff ==
    /\ group = ArgumentGroup(<<>>, NoOptions)
    /\ parts = <<>>
    /\ result = None
    /\ vresult = None
    /\ command = [versions |-> <<>>]
    /\ message = <<>>
    /\ pc = "off"
    /\ i = 0
    /\ errors = <<>>
    /\ executed = <<>>
    /\ tried = <<>>
    /\ reported = <<>>
    /\ leaf = None
    /\ token = <<>>
    /\ typed = None
    /\ yielded = None
    /\ text = <<>>
    /\ tokens = None
    /\ calls = <<>>
    /\ ScanOff

\* lines 760-766: this.loaded = new Map; no call has been made
InitLoad ==
    /\ disk \in [exports : Exports, commands : 0..MaxFiles]
    /\ callers = [p \in Callers |-> [pc |-> "idle", at |-> 0, returned |-> None]]
    /\ loadedModules = <<>>
    /\ registered = <<>>
    /\ loadedCommands = <<>>
    /\ cursor = 0
    /\ reloading = None
    /\ reloads = <<>>
    /\ MatcherOff

Returns(p, v) == [callers EXCEPT ![p].pc = "done", ![p].returned = v]

\* lines 769-775: load(filename) runs up to its await import(dirname)
LoadCalled(p) ==
    /\ callers[p].pc = "idle"
    /\ callers' = [callers EXCEPT ![p].pc = "import"]
    /\ UNCHANGED <<disk, loadedModules, registered>>
    /\ UNCHANGED <<matchVars, dispatchVars, unitVars, calls, scanVars, moduleVars>>

\* lines 775-786 and 794-804: the import settles; the call of p makes its
\* own instance, new loadedmod(), and tests this.loaded.get(module.name)
ImportSettles(p) ==
    /\ callers[p].pc = "import"
    /\ callers' =
          CASE disk.exports = "module" ->
                  IF S_fun \in DOMAIN loadedModules
                  THEN Returns(p, Null)
                  ELSE [callers EXCEPT ![p].pc = "readdir"]
            [] disk.exports = "missing" -> Returns(p, Null)
            [] disk.exports = "nothing" -> Returns(p, Null)
            [] disk.exports = "object" -> Returns(p, Undefined)
            [] OTHER -> Returns(p, Throw(TypeError(<<>>)))
    /\ UNCHANGED <<disk, loadedModules, registered>>
    /\ UNCHANGED <<matchVars, dispatchVars, unitVars, calls, scanVars, moduleVars>>

\* lines 156-158: module.loadAll() up to the end of its await fs.readdir
ReaddirResolves(p) ==
    /\ callers[p].pc = "readdir"
    /\ callers' = [callers EXCEPT ![p].pc = "commands", ![p].at = 0]
    /\ UNCHANGED <<disk, loadedModules, registered>>
    /\ UNCHANGED <<matchVars, dispatchVars, unitVars, calls, scanVars, moduleVars>>

\* lines 160-166: one await this.load(file) of the module's own instance;
\* a command file that cannot be loaded rejects loadAll and the call
CommandLoads(p, ok) ==
    /\ callers[p].pc = "commands"
    /\ callers[p].at < disk.commands
    /\ callers' =
          IF ok THEN [callers EXCEPT ![p].at = @ + 1]
          ELSE Returns(p, Throw(TypeError(<<>>)))
    /\ UNCHANGED <<disk, loadedModules, registered>>
    /\ UNCHANGED <<matchVars, dispatchVars, unitVars, calls, scanVars, moduleVars>>

\* lines 786-790: loadAll resolved; this.loaded.set(module.name, module)
\* and return module
LoadAllResolves(p) ==
    /\ callers[p].pc = "commands"
    /\ callers[p].at = disk.commands
    /\ loadedModules' = Put(loadedModules, S_fun, p)
    /\ registered' = Append(registered, p)
    /\ callers' = Returns(p, Value(p))
    /\ UNCHANGED disk
    /\ UNCHANGED <<matchVars, dispatchVars, unitVars, calls, scanVars, moduleVars>>

NextLoad ==
    \E p \in Callers :
        \/ LoadCalled(p)
        \/ ImportSettles(p)
        \/ ReaddirResolves(p)
        \/ \E ok \in BOOLEAN : CommandLoads(p, ok)
        \/ LoadAllResolves(p)

SpecLoad == InitLoad /\ [][NextLoad]_vars

\* the calls that returned a Module
Winners == {p \in DOMAIN callers : callers[p].returned.kind = "value"}

\* C25: however concurrent ModuleService.load calls for one module
\* interleave, at most one returns a Module and registers it, every other
\* call that returns returns null, and the registry entry is set once
C25_OneLoadWins ==
    disk # None =>
        /\ Cardinality(Winners) <= 1
        /\ Len(registered) <= 1
        /\ disk.exports = "module" =>
              \A p \in Callers :
                  (callers[p].pc = "done" /\ p \notin Winners
                        /\ callers[p].returned.kind # "throw")
                      => callers[p].returned = Null

\* ------------------------------------------------------------------------
\* Module.reloadAll over the commands a module has loaded
\* ------------------------------------------------------------------------
MaxCommands == 2
MaxReloads == 4

CommandNames == {S_a, S_b, S_c}

\* this.loaded as its keys in insertion order
LoadedMaps ==
    {m \in SeqsUpTo(CommandNames, MaxCommands) :
        \A j, k \in 1..Len(m) : m[j] = m[k] => j = k}

RemoveAt(m, k) == [j \in 1..(Len(m) - 1) |-> IF j < k THEN m[j] ELSE m[j + 1]]

Keys(m) == {m[k] : k \in 1..Len(m)}

\* lines 178-179: reloadAll was called and has made its iterator over
\* this.loaded; cursor counts the live entries the iterator has passed
InitReload ==
    /\ loadedCommands \in LoadedMaps
    /\ cursor = 0
    /\ reloading = [pc |-> "iterate", command |-> <<>>, before |-> loadedCommands]
    /\ reloads = <<>>
    /\ disk = None
    /\ callers = <<>>
    /\ loadedModules = <<>>
    /\ registered = <<>>
    /\ MatcherOff

\* lines 179-180, 147-150, 135-141, 109-114: the iterator yields the next
\* live key, reload(command) unloads it (this.loaded.delete) and load runs
\* up to its await import(pathname)
ReloadNext ==
    /\ reloading.pc = "iterate"
    /\ cursor < Len(loadedCommands)
    /\ Len(reloads) < MaxReloads
    /\ reloading' = [reloading EXCEPT !.pc = "import", !.command = loadedCommands[cursor + 1]]
    /\ loadedCommands' = RemoveAt(loadedCommands, cursor + 1)
    /\ reloads' = Append(reloads, loadedCommands[cursor + 1])
    /\ UNCHANGED cursor
    /\ UNCHANGED <<matchVars, dispatchVars, unitVars, calls, scanVars, serviceVars>>

\* lines 114-132: the import settles: the command is set again (a new key
\* goes to the end of the Map), or the file is gone and load returns null,
\* or another error is thrown out of reload and reloadAll
CommandImported(outcome) ==
    /\ reloading.pc = "import"
    /\ CASE outcome = "loaded" ->
              /\ loadedCommands' = Append(loadedCommands, reloading.command)
              /\ reloading' = [reloading EXCEPT !.pc = "iterate"]
         [] outcome = "missing" ->
              /\ reloading' = [reloading EXCEPT !.pc = "iterate"]
              /\ UNCHANGED loadedCommands
         [] OTHER ->
              /\ reloading' = [reloading EXCEPT !.pc = "rejected"]
              /\ UNCHANGED loadedCommands
    /\ UNCHANGED <<cursor, reloads>>
    /\ UNCHANGED <<matchVars, dispatchVars, unitVars, calls, scanVars, serviceVars>>

\* lines 179-182: the iterator is exhausted and reloadAll resolves
ReloadAllReturns ==
    /\ reloading.pc = "iterate"
    /\ cursor >= Len(loadedCommands)
    /\ reloading' = [reloading EXCEPT !.pc = "returned"]
    /\ UNCHANGED <<loadedCommands, cursor, reloads>>
    /\ UNCHANGED <<matchVars, dispatchVars, unitVars, calls, scanVars, serviceVars>>

NextReload ==
    \/ ReloadNext
    \/ \E outcome \in {"loaded", "missing", "error"} : CommandImported(outcome)
    \/ ReloadAllReturns

SpecReload == InitReload /\ [][NextReload]_vars

\* how often reload was called for the command
Reloaded(c) == Cardinality({k \in 1..Len(reloads) : reloads[k] = c})

\* C26: Module.reloadAll reloads no command more than once and makes no
\* more reload calls than commands were loaded when it was called; when it
\* returns, each of those commands was reloaded exactly once, and the
\* registry holds the same names as before if every reload succeeded
C26_EachCommandReloadedOnce ==
    reloading # None =>
        /\ \A c \in CommandNames : Reloaded(c) <= 1
        /\ Len(reloads) <= Len(reloading.before)
        /\ reloading.pc = "returned" =>
              /\ \A c \in Keys(reloading.before) : Reloaded(c) = 1
              /\ Len(loadedCommands) = Len(reloading.before) =>
                    Keys(loadedCommands) = Keys(reloading.before)

====
